---- MODULE Spec2Model ----
(***************************************************************************)
(* Model of the circuit engine of origami.py: Pleat (wire), Gadget (gate), *)
(* Network (circuit) with add_pleat, add_gadget, set_inputs,               *)
(* topological_sort and run.                                               *)
(*                                                                         *)
(* Python objects are modelled with their identity: a Pleat object is the  *)
(* pair <<name, k>> (the k-th Pleat created for that name), the heap maps   *)
(* each name to the signals of its Pleat objects, and the dict             *)
(* Network.pleats maps each of its keys to the index of the object it      *)
(* holds.  A Gadget keeps references to Pleat objects in its lists         *)
(* inputs / outputs, as the code does.                                     *)
(***************************************************************************)
EXTENDS Naturals, Sequences, FiniteSets

VARIABLES pleats, heap, gadgets, loose, hashseed, result

vars == <<pleats, heap, gadgets, loose, hashseed, result>>

---------------------------------------------------------------------------
(* Bounds of the model *)

MaxStale == 1        \* Pleat objects replaced in the dict while a gadget still holds them
MaxLeftover == 1     \* input references left in a gadget by failed add_gadget calls
MaxIter == 2         \* largest max_iterations handed to run

---------------------------------------------------------------------------
(* Signals, names *)

None == "None"
Signals == {"True", "False", None}

Names == {"a", "b", "c"}
InputNames == {"a", "b"}
GateNames == {"a", "b", "out"}
HalfNames == {"a", "b", "and_temp", "or_temp", "not_temp", "sum", "carry"}

\* dict[key] = value
Put(dict, key, value) ==
    [x \in DOMAIN dict \cup {key} |-> IF x = key THEN value ELSE dict[x]]

\* dict.get(key, default)
Get(dict, key, default) == IF key \in DOMAIN dict THEN dict[key] ELSE default

EmptyDict == [x \in {} |-> 0]

Range(s) == {s[i] : i \in 1..Len(s)}

---------------------------------------------------------------------------
(* Pleat objects *)

Pleat(name, k) == <<name, k>>

Sig(h, p) == h[p[1]][p[2]]

SetSig(h, p, v) == [h EXCEPT ![p[1]][p[2]] = v]

\* name in pleats_dict
HasPleat(pl, name) == name \in DOMAIN pl

\* pleats_dict[name]
PleatOf(pl, name) == Pleat(name, pl[name])

---------------------------------------------------------------------------
(* Gadget constructors *)

Gadget(kind, gadget_id, input_names, output_names) ==
    [kind |-> kind, gadget_id |-> gadget_id,
     input_names |-> input_names, output_names |-> output_names,
     inputs |-> <<>>, outputs |-> <<>>]

NOTGadget(gadget_id, input_name, output_name) ==
    Gadget("NOT", gadget_id, <<input_name>>, <<output_name>>)

ANDGadget(gadget_id, input1, input2, output) ==
    Gadget("AND", gadget_id, <<input1, input2>>, <<output>>)

ORGadget(gadget_id, input1, input2, output) ==
    Gadget("OR", gadget_id, <<input1, input2>>, <<output>>)

NANDGadget(gadget_id, input1, input2, output) ==
    Gadget("NAND", gadget_id, <<input1, input2>>, <<output>>)

---------------------------------------------------------------------------
(* Gadget.connect_inputs / connect_outputs *)

\* connect_inputs from the i-th input name on: appends the Pleat of each name
\* to g.inputs until a name is missing, and then raises.
RECURSIVE connect_inputs_from(_, _, _)
connect_inputs_from(g, pl, i) ==
    IF i > Len(g.input_names) THEN [g |-> g, raised |-> FALSE]
    ELSE IF ~HasPleat(pl, g.input_names[i]) THEN [g |-> g, raised |-> TRUE]
    ELSE connect_inputs_from(
            [g EXCEPT !.inputs = Append(@, PleatOf(pl, g.input_names[i]))], pl, i + 1)

connect_inputs(g, pl) == connect_inputs_from(g, pl, 1)

\* connect_outputs from the i-th output name on: a missing name gets a new
\* Pleat(name) with signal None.
RECURSIVE connect_outputs_from(_, _, _, _)
connect_outputs_from(g, pl, h, i) ==
    IF i > Len(g.output_names) THEN [g |-> g, pleats |-> pl, heap |-> h]
    ELSE LET name == g.output_names[i]
             fresh == ~HasPleat(pl, name)
             h1 == IF fresh THEN Put(h, name, Append(Get(h, name, <<>>), None)) ELSE h
             pl1 == IF fresh THEN Put(pl, name, Len(h1[name])) ELSE pl
         IN connect_outputs_from(
                [g EXCEPT !.outputs = Append(@, PleatOf(pl1, name))], pl1, h1, i + 1)

connect_outputs(g, pl, h) == connect_outputs_from(g, pl, h, 1)

---------------------------------------------------------------------------
(* Gate evaluation *)

has_undefined_first_only(h, g) == Sig(h, g.inputs[1]) = None

has_undefined_inputs(h, g) ==
    \E i \in 1..Len(g.inputs) : Sig(h, g.inputs[i]) = None

\* Python's not / and / or on the bool signals
PyNot(x) == IF x = "True" THEN "False" ELSE "True"
PyAnd(x, y) == IF x # "True" THEN x ELSE y
PyOr(x, y) == IF x = "True" THEN x ELSE y

GateFunctionSwapped(kind, in) ==
    CASE kind = "NOT" -> PyNot(in[1])
      [] kind = "AND" -> PyOr(in[1], in[2])
      [] kind = "OR" -> PyAnd(in[1], in[2])
      [] kind = "NAND" -> PyAnd(in[1], in[2])

\* the expression each evaluate assigns when no input is None; in is the
\* sequence of the signals of self.inputs
GateFunction(kind, in) ==
    CASE kind = "NOT" -> PyNot(in[1])
      [] kind = "AND" -> PyAnd(in[1], in[2])
      [] kind = "OR" -> PyOr(in[1], in[2])
      [] kind = "NAND" -> PyNot(PyAnd(in[1], in[2]))

evaluate_keeps_defined(h, g) ==
    IF Sig(h, g.outputs[1]) # None THEN h
    ELSE IF has_undefined_inputs(h, g)
    THEN SetSig(h, g.outputs[1], None)
    ELSE SetSig(h, g.outputs[1],
                GateFunction(g.kind, [i \in 1..Len(g.inputs) |-> Sig(h, g.inputs[i])]))

evaluate_into_input(h, g) ==
    IF has_undefined_inputs(h, g)
    THEN SetSig(h, g.inputs[1], None)
    ELSE SetSig(h, g.inputs[1],
                GateFunction(g.kind, [i \in 1..Len(g.inputs) |-> Sig(h, g.inputs[i])]))

\* g.evaluate(): the heap after it
evaluate(h, g) ==
    IF has_undefined_inputs(h, g)
    THEN SetSig(h, g.outputs[1], None)
    ELSE SetSig(h, g.outputs[1],
                GateFunction(g.kind, [i \in 1..Len(g.inputs) |-> Sig(h, g.inputs[i])]))

---------------------------------------------------------------------------
(* Network construction operations, on a record n = [pleats, heap, gadgets] *)

Network == [pleats |-> EmptyDict, heap |-> EmptyDict, gadgets |-> <<>>]

\* self.pleats[name] = Pleat(name, signal): always a new object
add_pleat(n, name, signal) ==
    LET h1 == Put(n.heap, name, Append(Get(n.heap, name, <<>>), signal))
    IN [n EXCEPT !.heap = h1, !.pleats = Put(n.pleats, name, Len(h1[name]))]

add_gadget_outputs_first(n, g) ==
    LET co == connect_outputs(g, n.pleats, n.heap)
        ci == connect_inputs(co.g, co.pleats)
    IN IF ci.raised
       THEN [net |-> [n EXCEPT !.pleats = co.pleats, !.heap = co.heap],
             g |-> ci.g, raised |-> TRUE]
       ELSE [net |-> [pleats |-> co.pleats, heap |-> co.heap,
                      gadgets |-> Append(n.gadgets, ci.g)],
             g |-> ci.g, raised |-> FALSE]

\* add_gadget: connect_inputs, connect_outputs, append.  An exception of
\* connect_inputs leaves the network as it is and the gadget with the
\* inputs appended so far.
add_gadget(n, g) ==
    LET ci == connect_inputs(g, n.pleats)
    IN IF ci.raised
       THEN [net |-> n, g |-> ci.g, raised |-> TRUE]
       ELSE LET co == connect_outputs(ci.g, n.pleats, n.heap)
            IN [net |-> [pleats |-> co.pleats, heap |-> co.heap,
                         gadgets |-> Append(n.gadgets, co.g)],
                g |-> co.g, raised |-> FALSE]

\* one iteration of the loop of set_inputs
set_input(n, name, signal) ==
    IF HasPleat(n.pleats, name)
    THEN [n EXCEPT !.heap = SetSig(n.heap, PleatOf(n.pleats, name), signal)]
    ELSE add_pleat(n, name, signal)

\* set_inputs(input_dict): the loop over the items of the dict, whose keys
\* are distinct
RECURSIVE set_inputs_over(_, _, _)
set_inputs_over(n, input_dict, todo) ==
    IF todo = {} THEN n
    ELSE LET name == CHOOSE x \in todo : TRUE
         IN set_inputs_over(set_input(n, name, input_dict[name]),
                            input_dict, todo \ {name})

set_inputs(n, input_dict) == set_inputs_over(n, input_dict, DOMAIN input_dict)

---------------------------------------------------------------------------
(* Network.topological_sort *)

NoProducer == "<none>"

\* pleat_to_producer.get(name) after the loop of lines 120-122 over the
\* first i gadgets: the id of the last of them that names it as an output
\* (a later assignment overwrites an earlier one)
RECURSIVE pleat_to_producer_upto(_, _, _)
pleat_to_producer_upto(gs, name, i) ==
    IF i = 0 THEN NoProducer
    ELSE IF \E k \in 1..Len(gs[i].output_names) : gs[i].output_names[k] = name
    THEN gs[i].gadget_id
    ELSE pleat_to_producer_upto(gs, name, i - 1)

pleat_to_producer(gs, name) == pleat_to_producer_upto(gs, name, Len(gs))

\* the keys of in_degree, in insertion order: the gadget ids in attachment
\* order, an id that occurs again keeping its first place
RECURSIVE in_degree_keys(_, _)
in_degree_keys(gs, i) ==
    IF i = 0 THEN <<>>
    ELSE LET before == in_degree_keys(gs, i - 1)
         IN IF gs[i].gadget_id \in Range(before) THEN before
            ELSE Append(before, gs[i].gadget_id)

\* gadget_map[gid]: the last gadget with that id among the first i (its index)
RECURSIVE gadget_map_upto(_, _, _)
gadget_map_upto(gs, gid, i) ==
    IF gs[i].gadget_id = gid THEN i ELSE gadget_map_upto(gs, gid, i - 1)

gadget_map(gs, gid) == gadget_map_upto(gs, gid, Len(gs))

\* `if producer` in Python: a non-empty id that was found
Truthy(producer) == producer # NoProducer /\ producer # ""

producers_of_none(gs, j) == {}

producers_of_with_self(gs, j) ==
    {p \in {pleat_to_producer(gs, gs[j].input_names[k]) : k \in 1..Len(gs[j].input_names)} :
        Truthy(p)}

\* the producers the loop of lines 128-135 finds for the consumer gs[j]:
\* those recorded for its input names, found, non-empty and not itself
producers_of(gs, j) ==
    {p \in {pleat_to_producer(gs, gs[j].input_names[k]) : k \in 1..Len(gs[j].input_names)} :
        Truthy(p) /\ p # gs[j].gadget_id}

\* producers_of for the first i gadgets, as a sequence
RECURSIVE producers(_, _)
producers(gs, i) ==
    IF i = 0 THEN <<>> ELSE Append(producers(gs, i - 1), producers_of(gs, i))

\* graph[producer]: the set of consumer ids added to it; prods = producers(gs, Len(gs))
graph(gs, prods, producer) ==
    {gs[j].gadget_id : j \in {i \in 1..Len(gs) : producer \in prods[i]}}

\* in_degree after the loop of lines 128-135, as the sequence of its values
\* in the order of its keys: one for each (producer, consumer) pair added
\* to graph
RECURSIVE in_degree(_, _, _, _)
in_degree(gs, prods, keys, i) ==
    IF i = 0 THEN <<>>
    ELSE Append(in_degree(gs, prods, keys, i - 1),
                Cardinality(UNION {prods[j] :
                    j \in {k \in 1..Len(gs) : gs[k].gadget_id = keys[i]}}))

\* Every gadget id of the model, in a fixed listing.
AllIds == <<"g1", "g2", "g3", "g4", "g5", "g6",
            "n1", "and1", "or1", "nand1", "not1", "and2", "and3_carry">>

Reverse(s) == [i \in 1..Len(s) |-> s[Len(s) + 1 - i]]

\* Iterating a Python set of str visits its members in the order of their
\* hash slots, which the process's hash seed decides (str hashes are
\* randomised per process).  Two seeds are modelled: one that puts the ids
\* in the listing's order and one that puts them in the opposite order.
HashSeeds == {"seedA", "seedB"}

SetIteration(S, seed) ==
    SelectSeq(IF seed = "seedA" THEN AllIds ELSE Reverse(AllIds), LAMBDA x : x \in S)

\* in_degree[nbr] -= 1 for every nbr of the set nbrs (keys 1..i)
RECURSIVE decrement(_, _, _, _)
decrement(keys, deg, nbrs, i) ==
    IF i = 0 THEN <<>>
    ELSE Append(decrement(keys, deg, nbrs, i - 1),
                IF keys[i] \in nbrs THEN deg[i] - 1 ELSE deg[i])

\* the keys whose in_degree is 0, in the order of the sequence ids
Zeroes(keys, deg, ids) ==
    SelectSeq(ids, LAMBDA c : \E i \in 1..Len(keys) : keys[i] = c /\ deg[i] = 0)

\* the while loop over the queue (lines 139-145)
RECURSIVE kahn(_, _, _, _, _, _, _)
kahn(gs, prods, keys, seed, queue, order, deg) ==
    IF queue = <<>> THEN order
    ELSE LET gid == Head(queue)
             nbrs == SetIteration(graph(gs, prods, gid), seed)
             deg1 == decrement(keys, deg, Range(nbrs), Len(keys))
         IN kahn(gs, prods, keys, seed, Tail(queue) \o Zeroes(keys, deg1, nbrs),
                 Append(order, gadget_map(gs, gid)), deg1)

topological_sort_attachment_order(gs, seed) ==
    [order |-> [i \in 1..Len(gs) |-> i], raised |-> FALSE]

\* topological_sort: the order as indexes into self.gadgets, or the
\* ValueError of line 148
topological_sort(gs, seed) ==
    LET prods == producers(gs, Len(gs))
        keys == in_degree_keys(gs, Len(gs))
        deg == in_degree(gs, prods, keys, Len(keys))
        order == kahn(gs, prods, keys, seed, Zeroes(keys, deg, keys), <<>>, deg)
    IN IF Len(order) # Len(gs)
       THEN [order |-> <<>>, raised |-> TRUE]
       ELSE [order |-> order, raised |-> FALSE]

---------------------------------------------------------------------------
(* Network.run *)

NoSnapshot == <<>>

Snapshot_first_object(pl, h) ==
    [name \in DOMAIN pl |-> Sig(h, Pleat(name, 1))]

\* {name: p.signal for name, p in self.pleats.items()}
Snapshot(pl, h) ==
    [name \in DOMAIN pl |-> Sig(h, PleatOf(pl, name))]

OutputSignals(h, g) == [i \in 1..Len(g.outputs) |-> Sig(h, g.outputs[i])]

\* lines 165-166: if old != new: changed = True
changed_after(changed, old, new) == changed \/ old # new

\* one pass of the inner loop (lines 159-166) from position i of the order
RECURSIVE pass(_, _, _, _, _)
pass(h, gs, order, i, changed) ==
    IF i > Len(order) THEN [heap |-> h, changed |-> changed]
    ELSE LET g == gs[order[i]]
             old == OutputSignals(h, g)
             h1 == evaluate(h, g)
             new == OutputSignals(h1, g)
         IN pass(h1, gs, order, i + 1, changed_after(changed, old, new))

iterations_off_by_one(max_iterations) == max_iterations + 1

\* range(max_iterations)
iterations(max_iterations) == max_iterations

fixpoint_inverted(changed) == changed

\* line 167: if not changed
fixpoint(changed) == ~changed

\* the outer loop (lines 155-170) from iteration number it (0-based)
RECURSIVE stabilize(_, _, _, _, _)
stabilize(h, gs, order, it, limit) ==
    IF it >= limit
    THEN [heap |-> h, passes |-> it, converged |-> FALSE]
    ELSE LET p == pass(h, gs, order, 1, FALSE)
         IN IF fixpoint(p.changed)
            THEN [heap |-> p.heap, passes |-> it + 1, converged |-> TRUE]
            ELSE stabilize(p.heap, gs, order, it + 1, limit)

\* run(max_iterations) on network n under the process's hash seed
run(n, max_iterations, seed) ==
    LET ts == topological_sort(n.gadgets, seed)
    IN IF ts.raised
       THEN [heap |-> n.heap, raised |-> "CycleError", snapshot |-> NoSnapshot,
             passes |-> 0, evaluated |-> 0, converged |-> FALSE]
       ELSE LET st == stabilize(n.heap, n.gadgets, ts.order, 0, iterations(max_iterations))
            IN [heap |-> st.heap, raised |-> "no", snapshot |-> Snapshot(n.pleats, st.heap),
                passes |-> st.passes, evaluated |-> st.passes * Len(ts.order),
                converged |-> st.converged]

---------------------------------------------------------------------------
(* The circuits the callers build *)

\* The gadgets a caller constructs before building its network, one set per
\* caller: a feedback pair with a third gadget that writes one of its wires
\* again; a producer with two consumers that write the same wire; a single
\* two-input gadget.
Callers ==
    {{NOTGadget("g1", "a", "b"),
      ORGadget("g2", "b", "b", "a"),
      NOTGadget("g3", "b", "b")},
     {NOTGadget("g1", "a", "b"),
      NANDGadget("g5", "b", "b", "c"),
      ORGadget("g6", "b", "b", "c")},
     {ANDGadget("g4", "a", "b", "c")}}

RECURSIVE add_pleats(_, _)
add_pleats(n, names) ==
    IF names = <<>> THEN n ELSE add_pleats(add_pleat(n, Head(names), None), Tail(names))

RECURSIVE add_gadgets(_, _)
add_gadgets(n, gs) ==
    IF gs = <<>> THEN n ELSE add_gadgets(add_gadget(n, Head(gs)).net, Tail(gs))

\* the single-gate networks of Test_Gates_TruthTables
test_not == add_gadgets(add_pleats(Network, <<"a", "out">>),
                        <<NOTGadget("n1", "a", "out")>>)
test_and == add_gadgets(add_pleats(Network, <<"a", "b", "out">>),
                        <<ANDGadget("and1", "a", "b", "out")>>)
test_or == add_gadgets(add_pleats(Network, <<"a", "b", "out">>),
                       <<ORGadget("or1", "a", "b", "out")>>)
test_nand == add_gadgets(add_pleats(Network, <<"a", "b", "out">>),
                         <<NANDGadget("nand1", "a", "b", "out")>>)

build_half_adder_network ==
    add_gadgets(
        add_pleats(Network,
                   <<"a", "b", "and_temp", "or_temp", "not_temp", "sum", "carry">>),
        <<ANDGadget("and1", "a", "b", "and_temp"),
          ORGadget("or1", "a", "b", "or_temp"),
          NOTGadget("not1", "and_temp", "not_temp"),
          ANDGadget("and2", "or_temp", "not_temp", "sum"),
          ANDGadget("and3_carry", "a", "b", "carry")>>)

\* the dicts handed to set_inputs over the names S: one entry with any
\* signal, or a boolean input vector for two of the names
InputDicts(S) ==
    UNION {[{x} -> Signals] : x \in S}
    \cup UNION {[T -> {"True", "False"}] : T \in {U \in SUBSET S : Cardinality(U) = 2}}

NetworkDicts == InputDicts(InputNames)

GateDicts == InputDicts(GateNames)

\* the dict {"a": a, "b": b} of the half-adder callers
HalfDicts == [{"a", "b"} -> Signals]

---------------------------------------------------------------------------
(* State machine *)

Net == [pleats |-> pleats, heap |-> heap, gadgets |-> gadgets]

\* what the last call returned or raised: add_pleat, set_inputs and a
\* successful add_gadget return None
Outcome(raised) ==
    [call |-> "construct", raised |-> raised, snapshot |-> NoSnapshot,
     passes |-> 0, evaluated |-> 0, converged |-> FALSE]

InitWith(n, made) ==
    /\ pleats = n.pleats
    /\ heap = n.heap
    /\ gadgets = n.gadgets
    /\ loose = made
    /\ hashseed \in HashSeeds
    /\ result = Outcome("no")

\* an empty Network and the gadgets of one caller, constructed and not attached
Init == \E made \in Callers : InitWith(Network, made)

InitGate == \E n \in {test_not, test_and, test_or, test_nand} : InitWith(n, {})

InitHalf == InitWith(build_half_adder_network, {})

\* the Pleat objects some gadget (attached, or kept by the caller after a
\* failed add_gadget) refers to
Referenced(gs, ls) ==
    UNION {Range(gs[i].inputs) \cup Range(gs[i].outputs) : i \in 1..Len(gs)}
    \cup UNION {Range(g.inputs) \cup Range(g.outputs) : g \in ls}

\* Pleat objects that are no longer in the dict but still held by a gadget
RECURSIVE Sum(_, _)
Sum(f, S) == IF S = {} THEN 0
             ELSE LET x == CHOOSE y \in S : TRUE IN f[x] + Sum(f, S \ {x})

Stale == Sum([n \in DOMAIN heap |-> Len(heap[n]) - 1], DOMAIN heap)

\* A Pleat that add_pleat replaced in the dict and that no gadget refers to
\* is unreachable (CPython frees it at once): it leaves the heap, and the
\* new Pleat of that name takes its place in the numbering.
Reclaim(n, name, ls) ==
    LET k == n.pleats[name]
    IN IF k > 1 /\ Pleat(name, k - 1) \notin Referenced(n.gadgets, ls)
       THEN [n EXCEPT !.pleats[name] = k - 1,
                      !.heap[name] = Append(SubSeq(@, 1, k - 2), n.heap[name][k])]
       ELSE n

AddPleat(name, signal) ==
    /\ LET n == Reclaim(add_pleat(Net, name, signal), name, loose)
       IN /\ pleats' = n.pleats
          /\ heap' = n.heap
    /\ Stale' <= MaxStale
    /\ result' = Outcome("no")
    /\ UNCHANGED <<gadgets, loose, hashseed>>

\* add_gadget(g), g a gadget the caller holds: a new one, or one whose
\* add_gadget failed before
AddGadget(g) ==
    /\ g \in loose
    /\ Len(g.inputs) <= MaxLeftover
    /\ LET r == add_gadget(Net, g)
       IN /\ pleats' = r.net.pleats
          /\ heap' = r.net.heap
          /\ gadgets' = r.net.gadgets
          /\ loose' = IF r.raised THEN (loose \ {g}) \cup {r.g} ELSE loose \ {g}
          /\ result' = Outcome(IF r.raised THEN "UnresolvedWireError" ELSE "no")
    /\ UNCHANGED hashseed

SetInputs(input_dict) ==
    /\ LET n == set_inputs(Net, input_dict)
       IN /\ pleats' = n.pleats
          /\ heap' = n.heap
    /\ result' = Outcome("no")
    /\ UNCHANGED <<gadgets, loose, hashseed>>

Run(max_iterations) ==
    /\ LET r == run(Net, max_iterations, hashseed)
       IN /\ heap' = r.heap
          /\ result' = [call |-> "run", raised |-> r.raised, snapshot |-> r.snapshot,
                        passes |-> r.passes, evaluated |-> r.evaluated,
                        converged |-> r.converged]
    /\ UNCHANGED <<pleats, gadgets, loose, hashseed>>

DeclareWire == \E name \in InputNames, signal \in Signals : AddPleat(name, signal)

AttachGate == \E g \in loose : AddGadget(g)

DriveInputs == \E d \in NetworkDicts : SetInputs(d)

DriveGateInputs == \E d \in GateDicts : SetInputs(d)

DriveHalfInputs == \E d \in HalfDicts : SetInputs(d)

RunNetwork == \E max_iterations \in 0..MaxIter : Run(max_iterations)

Next == DeclareWire \/ AttachGate \/ DriveInputs \/ RunNetwork

NextGate == DriveGateInputs \/ RunNetwork

NextHalf == DriveHalfInputs \/ RunNetwork

\* any construction and use of a network
Spec == Init /\ [][Next]_vars

\* the single-gate networks of the truth-table tests, driven and run
SpecGate == InitGate /\ [][NextGate]_vars

\* the half-adder network, driven and run
SpecHalf == InitHalf /\ [][NextHalf]_vars

---------------------------------------------------------------------------
(* Properties *)

\* the value the dict holds for a name
Value(name) == Sig(heap, PleatOf(pleats, name))

IsBool(x) == x \in {"True", "False"}
Bool(x) == x = "True"
Signal(b) == IF b THEN "True" ELSE "False"

Ran == result.call = "run" /\ result.raised = "no"

\* the gate of a single-gate network, its input wire names and its output name
Gate == gadgets[1]
SomeInputUnknown ==
    \E k \in 1..Len(Gate.input_names) : Value(Gate.input_names[k]) = None

\* C1: in a single-gate network of any of the four variants, with any
\* signals on the input wires, evaluate writes Unknown to the output wire
\* whenever some input wire is Unknown, whatever the other input is; and run
\* raises nothing and, having made a pass, reports Unknown for the output.
C1_StrictUnknown ==
    /\ SomeInputUnknown =>
           Sig(evaluate(heap, Gate), PleatOf(pleats, Gate.output_names[1])) = None
    /\ result.call = "run" =>
           /\ result.raised = "no"
           /\ (SomeInputUnknown /\ result.passes >= 1) =>
                  result.snapshot[Gate.output_names[1]] = None

\* AND(False, Unknown) came out Unknown from a run
C1_Witness ==
    /\ Ran /\ result.passes >= 1
    /\ Gate.kind = "AND"
    /\ Value("a") = "False" /\ Value("b") = None
    /\ result.snapshot["out"] = None

\* C2: in a single-gate network, run (of at least one pass) returns
\* out = not a for NOT, a and b for AND, a or b for OR, not (a and b) for
\* NAND, for the boolean inputs a, b last driven, after any sequence of
\* set_inputs and run calls.
C2_TruthTables ==
    (Ran /\ result.passes >= 1 /\ \A k \in 1..Len(Gate.input_names) :
                                     IsBool(Value(Gate.input_names[k]))) =>
        LET a == Bool(Value("a"))
            b == Bool(Value(Gate.input_names[Len(Gate.input_names)]))
        IN result.snapshot["out"] =
              Signal(CASE Gate.kind = "NOT" -> ~a
                       [] Gate.kind = "AND" -> a /\ b
                       [] Gate.kind = "OR" -> a \/ b
                       [] Gate.kind = "NAND" -> ~(a /\ b))

\* NAND(True, True) came out False from a run
C2_Witness ==
    /\ Ran /\ result.passes >= 1
    /\ Gate.kind = "NAND"
    /\ Value("a") = "True" /\ Value("b") = "True"
    /\ result.snapshot["out"] = "False"

\* C3: on the half-adder network, after any sequence of set_inputs({a, b})
\* and run calls, the snapshot of a run (of at least one pass) has
\* sum = a XOR b and carry = a AND b for the boolean inputs last driven.
C3_HalfAdder ==
    (Ran /\ result.passes >= 1 /\ IsBool(Value("a")) /\ IsBool(Value("b"))) =>
        LET a == Bool(Value("a"))
            b == Bool(Value("b"))
        IN /\ result.snapshot["sum"] = Signal((a \/ b) /\ ~(a /\ b))
           /\ result.snapshot["sum"] = Signal(a # b)
           /\ result.snapshot["carry"] = Signal(a /\ b)

\* a run for a = True, b = False returned sum = True, carry = False
C3_Witness ==
    /\ Ran /\ result.passes >= 1
    /\ Value("a") = "True" /\ Value("b") = "False"
    /\ result.snapshot["sum"] = "True" /\ result.snapshot["carry"] = "False"

\* two attached gadgets each name the other's output among their inputs
MutuallyDependent ==
    \E i, j \in 1..Len(gadgets) :
        /\ i # j
        /\ gadgets[i].output_names[1] \in Range(gadgets[j].input_names)
        /\ gadgets[j].output_names[1] \in Range(gadgets[i].input_names)

\* C4: whenever two attached gadgets are mutually dependent, run fails with
\* the cycle error, evaluates no gate and returns no snapshot.
C4_CycleDetected ==
    (result.call = "run" /\ MutuallyDependent) =>
        /\ result.raised = "CycleError"
        /\ result.evaluated = 0
        /\ result.snapshot = NoSnapshot

\* C5: an add_gadget that fails on a missing input wire leaves the network
\* unchanged: no pleat is added (the output wire is not declared), no signal
\* changes and the gadget is not appended.
C5_AttachAllOrNothing ==
    [][result'.raised = "UnresolvedWireError" =>
           /\ pleats' = pleats
           /\ heap' = heap
           /\ gadgets' = gadgets]_vars

\* add_gadget of the two-input gadget failed on its second input name, its
\* first being present and its output wire not declared
C5_Witness ==
    /\ result.raised = "UnresolvedWireError"
    /\ \E g \in loose :
          /\ Len(g.input_names) = 2
          /\ g.input_names[1] \in DOMAIN pleats
          /\ g.inputs = <<PleatOf(pleats, g.input_names[1])>>
          /\ g.input_names[2] \notin DOMAIN pleats
          /\ g.output_names[1] \notin DOMAIN pleats
    /\ gadgets = <<>>

\* C6: there is one value per wire name, shared by the dict and the
\* gadgets: every Pleat an attached gadget reads or writes holds the value
\* the dict (and so the snapshot) holds for its name, also after add_pleat
\* on a name that exists.
C6_OneValuePerName ==
    \A i \in 1..Len(gadgets) :
        \A p \in Range(gadgets[i].inputs) \cup Range(gadgets[i].outputs) :
            Sig(heap, p) = Value(p[1])

\* C7: a network built by the same calls and given the same inputs returns
\* the same snapshot from run with the same max_iterations in every process,
\* whatever its hash seed.
C7_Deterministic ==
    \A max_iterations \in 0..MaxIter : \A seed \in HashSeeds :
        run(Net, max_iterations, seed).snapshot
            = run(Net, max_iterations, hashseed).snapshot

\* C8: a run that follows, with no call in between, a run that ended on a
\* pass without change returns the same snapshot and changes no signal.
C8_RunIdempotent ==
    [][(result.call = "run" /\ result.converged /\ result'.call = "run") =>
           /\ result'.raised = "no"
           /\ result'.snapshot = result.snapshot
           /\ heap' = heap]_vars

\* a run over two or more gadgets, with defined outputs, whose first pass
\* changed nothing: the network had stabilised before it
C8_Witness ==
    /\ Ran /\ result.converged /\ result.passes = 1
    /\ Len(gadgets) >= 2
    /\ \A i \in 1..Len(gadgets) : Sig(heap, gadgets[i].outputs[1]) # None

\* C9: when the scheduler finds an order, run(max_iterations) makes at most
\* max_iterations passes, raises nothing and returns the signals after its
\* last pass; without a fixpoint it makes exactly max_iterations passes.
C9_IterationCap ==
    [][\A max_iterations \in 0..MaxIter :
          (result'.call = "run" /\ result'.raised # "CycleError" /\ Run(max_iterations)) =>
              /\ result'.raised = "no"
              /\ result'.passes <= max_iterations
              /\ ~result'.converged => result'.passes = max_iterations
              /\ result'.snapshot = Snapshot(pleats', heap')]_vars

\* a NOT gadget whose output wire is its input wire was run to the cap
\* without reaching a fixpoint
C9_Witness ==
    /\ Ran /\ ~result.converged /\ result.passes = MaxIter
    /\ Len(gadgets) = 1
    /\ gadgets[1].kind = "NOT"
    /\ gadgets[1].input_names = gadgets[1].output_names
    /\ result.snapshot = Snapshot(pleats, heap)

\* C10: after set_inputs(d) every name of d is a key holding its signal,
\* every other wire keeps its signal, the gadget list is unchanged, and the
\* attached gadgets that read a wire of d read the new signal.
C10_SetInputs ==
    [][\A d \in NetworkDicts :
          SetInputs(d) =>
              /\ \A name \in DOMAIN d :
                    /\ name \in DOMAIN pleats'
                    /\ Sig(heap', PleatOf(pleats', name)) = d[name]
              /\ \A name \in DOMAIN pleats \ DOMAIN d :
                    /\ name \in DOMAIN pleats'
                    /\ Sig(heap', PleatOf(pleats', name)) = Value(name)
              /\ gadgets' = gadgets
              /\ \A i \in 1..Len(gadgets) : \A p \in Range(gadgets[i].inputs) :
                    p[1] \in DOMAIN d => Sig(heap', p) = d[p[1]]]_vars

\* C11: the mapping run returns has exactly the names of the dict as keys
\* (the declared wires and the output wires add_gadget declared), each with
\* the signal the dict's Pleat of that name holds when run returns; its
\* values are signals, not Pleat objects, so no later call changes it.
C11_Snapshot ==
    Ran =>
        /\ DOMAIN result.snapshot = DOMAIN pleats
        /\ \A name \in DOMAIN pleats :
              /\ result.snapshot[name] = Value(name)
              /\ result.snapshot[name] \in Signals

\* a run returned a snapshot with a declared wire and an output wire that
\* add_gadget declared, the declared wire having been declared again with
\* another signal after the gadget was attached
C11_Witness ==
    /\ Ran /\ result.passes >= 1
    /\ Len(gadgets) >= 1
    /\ \E name \in DOMAIN pleats :
          /\ Len(heap[name]) >= 2
          /\ heap[name][1] # Value(name)
          /\ result.snapshot[name] = Value(name)
    /\ \E i \in 1..Len(gadgets) :
          /\ gadgets[i].output_names[1] \in DOMAIN result.snapshot
          /\ gadgets[i].output_names[1] \notin InputNames

\* two attached gadgets name the same output wire
SharedOutput ==
    \E i, j \in 1..Len(gadgets) :
        i # j /\ Range(gadgets[i].output_names) \cap Range(gadgets[j].output_names) # {}

\* some attached gadget names a wire both as an input and as an output
SelfReading ==
    \E i \in 1..Len(gadgets) :
        Range(gadgets[i].input_names) \cap Range(gadgets[i].output_names) # {}

\* the signals after run(1) are those after run(max_iterations), for every
\* larger max_iterations
OnePassSuffices ==
    LET one == run(Net, 1, hashseed)
    IN one.raised # "CycleError" =>
          \A max_iterations \in 2..MaxIter :
              LET more == run(Net, max_iterations, hashseed)
              IN /\ more.snapshot = one.snapshot
                 /\ more.heap = one.heap

RECURSIVE stabilize_by_wires(_, _, _, _, _)
stabilize_by_wires(h, gs, order, it, limit) ==
    IF it >= limit
    THEN [heap |-> h, passes |-> it, converged |-> FALSE]
    ELSE LET p == pass(h, gs, order, 1, FALSE)
         IN IF p.heap = h
            THEN [heap |-> p.heap, passes |-> it + 1, converged |-> TRUE]
            ELSE stabilize_by_wires(p.heap, gs, order, it + 1, limit)

\* C13: run stops after the first full pass at whose end every wire holds
\* the signal it held at the start of the pass, and goes on to the next pass
\* (while max_iterations allows) exactly when some wire's signal differs; a
\* pass in which two gadgets write a wire that ends with the signal it
\* started with is a pass without change.
C13_FixpointStop ==
    \A max_iterations \in 0..MaxIter :
        LET r == run(Net, max_iterations, hashseed)
            ts == topological_sort(gadgets, hashseed)
            w == stabilize_by_wires(heap, gadgets, ts.order, 0, max_iterations)
        IN r.raised = "no" =>
              /\ r.passes = w.passes
              /\ r.converged = w.converged

\* the index of the last attached gadget that names the wire as an output
\* (0 when there is none): the wire's recorded producer
LastWriter(name) ==
    LET W == {j \in 1..Len(gadgets) : name \in Range(gadgets[j].output_names)}
    IN IF W = {} THEN 0 ELSE CHOOSE j \in W : \A k \in W : k <= j

\* the place of the gadget of index i in an order
Place(order, i) == CHOOSE k \in 1..Len(order) : order[k] = i

ProducersOf(i) ==
    {LastWriter(name) : name \in Range(gadgets[i].input_names)} \ {0, i}

\* the dependents of the gadget of index p
Dependents(p) == {i \in 1..Len(gadgets) : p \in ProducersOf(i)}

\* the indexes of S in attachment order
InAttachmentOrder(S) ==
    SelectSeq([i \in 1..Len(gadgets) |-> i], LAMBDA i : i \in S)

\* Kahn's algorithm with a FIFO queue, the dependents of a dequeued gadget
\* visited in attachment order
RECURSIVE FifoKahn(_, _, _)
FifoKahn(queue, order, deg) ==
    IF queue = <<>> THEN order
    ELSE LET p == Head(queue)
             deg1 == [i \in 1..Len(gadgets) |->
                         IF i \in Dependents(p) THEN deg[i] - 1 ELSE deg[i]]
             freed == InAttachmentOrder({i \in Dependents(p) : deg1[i] = 0})
         IN FifoKahn(Tail(queue) \o freed, Append(order, p), deg1)

FifoOrder ==
    LET deg == [i \in 1..Len(gadgets) |-> Cardinality(ProducersOf(i))]
    IN FifoKahn(InAttachmentOrder({i \in 1..Len(gadgets) : deg[i] = 0}), <<>>, deg)

\* C15: the order topological_sort returns is the order of Kahn's algorithm
\* with a FIFO queue that starts with the gadgets of in-degree zero in
\* attachment order and visits the dependents of each dequeued gadget in
\* attachment order.
C15_TieBreak ==
    LET ts == topological_sort(gadgets, hashseed)
    IN ~ts.raised => ts.order = FifoOrder

\* C16: run changes the signal only of wires that some attached gadget
\* names as an output: every Pleat of a name that no attached gadget names
\* as an output holds after run the signal it held before, and run adds no
\* pleat and no gadget.
C16_RunFrame ==
    [][result'.call = "run" =>
           /\ pleats' = pleats
           /\ gadgets' = gadgets
           /\ DOMAIN heap' = DOMAIN heap
           /\ \A name \in DOMAIN heap :
                 /\ Len(heap'[name]) = Len(heap[name])
                 /\ LastWriter(name) = 0 => heap'[name] = heap[name]]_vars

\* a run of two or more gadgets gave a signal to an output wire that
\* add_gadget had declared, with a driven input wire that no gadget writes
C16_Witness ==
    /\ Ran /\ result.passes >= 1
    /\ Len(gadgets) >= 2
    /\ \E name \in InputNames :
          name \in DOMAIN pleats /\ LastWriter(name) = 0 /\ Value(name) # None
    /\ \E i \in 1..Len(gadgets) :
          /\ gadgets[i].output_names[1] \notin InputNames
          /\ Value(gadgets[i].output_names[1]) # None

\* the signals the Pleat objects of a name may hold in another copy of the
\* network: any, except that the dict's Pleat of a wire no gadget writes
\* holds the same signal
PleatHistories(name) ==
    {s \in [1..Len(heap[name]) -> Signals] :
        LastWriter(name) = 0 => s[pleats[name]] = Value(name)}

\* the heaps of the copies of the network that agree with it on the wires
\* no gadget writes
OtherHistories ==
    {h \in [DOMAIN heap -> UNION {PleatHistories(name) : name \in DOMAIN heap}] :
        \A name \in DOMAIN heap : h[name] \in PleatHistories(name)}

\* C17: on a network on which run does not raise, in which no two gadgets
\* share an output wire and no gadget reads a wire it writes, the snapshot
\* of run (of at least one pass) depends only on the signals of the wires
\* no gadget writes: a copy that agrees on those returns the same snapshot.
C17_HistoryIndependent ==
    (~SharedOutput /\ ~SelfReading) =>
        \A max_iterations \in 1..MaxIter :
            LET r == run(Net, max_iterations, hashseed)
            IN r.raised = "no" =>
                  \A h \in OtherHistories :
                      run([Net EXCEPT !.heap = h], max_iterations, hashseed).snapshot
                          = r.snapshot

\* the gadget as a freshly constructed one would be after the add_gadget
\* that attached it: with the Pleats that call appended for its input names
FreshlyAttached(g) ==
    [g EXCEPT !.inputs = SubSeq(@, Len(@) - Len(g.input_names) + 1, Len(@))]

\* C18: an attached gadget, also one whose add_gadget had failed on a
\* missing input wire before, reads exactly the wires of its input names,
\* in their order, and its evaluate writes to its output wire what the
\* evaluate of a freshly constructed gadget writes.
C18_Reattach ==
    \A i \in 1..Len(gadgets) :
        LET g == gadgets[i]
        IN /\ [k \in 1..Len(g.inputs) |-> g.inputs[k][1]] = g.input_names
           /\ evaluate(heap, g) = evaluate(heap, FreshlyAttached(g))

\* the gadgets reached from those of S along producer-to-consumer edges
RECURSIVE Downstream(_)
Downstream(S) ==
    LET T == S \cup UNION {Dependents(p) : p \in S}
    IN IF T = S THEN S ELSE Downstream(T)

\* the producer-to-consumer graph (recorded producers, no self-edges) has
\* no cycle
Acyclic == \A p \in 1..Len(gadgets) : p \notin Downstream(Dependents(p))

\* C19: on a network of gadgets with distinct ids whose producer-to-consumer
\* graph has no cycle, topological_sort returns and run does not raise the
\* cycle error; a gadget that names its own output wire among its inputs is
\* not a cycle.
C19_NoFalseCycle ==
    Acyclic =>
        /\ ~topological_sort(gadgets, hashseed).raised
        /\ result.call = "run" => result.raised = "no"

\* run returned on a network of two or more gadgets, one of which reads the
\* wire it writes and is the producer of another
C19_Witness ==
    /\ Ran /\ Acyclic /\ SelfReading
    /\ Len(gadgets) >= 2
    /\ \E i \in 1..Len(gadgets) :
          /\ Range(gadgets[i].input_names) \cap Range(gadgets[i].output_names) # {}
          /\ Dependents(i) # {}

====
